---- MODULE Spec2Model ----
(***************************************************************************)
(* The OCI cost-report ingestion pipeline of src/python.py: secrets ->     *)
(* OCI configuration -> list / download / decompress / upload to GCS       *)
(* staging -> BigQuery load -> GCS archive -> cleanup and log upload.      *)
(*                                                                         *)
(* Names are modelled by what the string operations of the code do to      *)
(* them: a path is the sequence of its '/'-separated segments and a        *)
(* segment is a sequence of tokens (".gz" and ".csv" are tokens), so that  *)
(* rsplit("/", 1)[-1], os.path.basename, endswith, replace and strip are   *)
(* operators on sequences.                                                 *)
(***************************************************************************)
EXTENDS Integers, Sequences, FiniteSets, TLC

VARIABLES
    mode,         \* "once": one run; "seq": runs follow each other; "conc": two runs interleave
    faults,       \* the operations the environment may fail in this behaviour
    oci,          \* the report objects of the OCI bucket, in listing order
    gcs,          \* the GCS report bucket: blob name -> content
    dataset,      \* whether the BigQuery dataset exists
    table,        \* the BigQuery table: content -> number of times its rows were appended
    runsStarted,  \* number of invocations of main so far
    run,          \* per invocation of main: its position and local state
    script        \* the run of ADO/scripts/detect_changes.py: its position and locals

vars == <<mode, faults, oci, gcs, dataset, table, runsStarted, run, script>>

(***************************** bounds **************************************)
MaxObjs == 3      \* most report objects in one listing
MaxRuns == 2      \* most invocations of main that follow each other
TicksPerDay == 2  \* resolution of a creation timestamp within one day

Runs == {1, 2}

(************************* names and strings *******************************)
Last(s) == s[Len(s)]

\* str.endswith(".gz") on a file name or path
EndsWithGz(path) ==
    /\ Len(path) > 0
    /\ Len(Last(path)) > 0
    /\ Last(Last(path)) = ".gz"

\* object_name.rsplit("/", 1)[-1] and os.path.basename(path)
Basename(path) == Last(path)

\* blob.name.endswith('/')
EndsWithSlash(path) == Last(path) = <<>>

\* filename_base.replace(".gz", ""): every occurrence of ".gz" is removed
RemoveGz(filename) == SelectSeq(filename, LAMBDA t : t # ".gz")

\* obj.time_created.date(): the calendar day a timestamp falls on
DateOf(ts) == ts \div TicksPerDay

Put(f, k, v) == [x \in (DOMAIN f) \cup {k} |-> IF x = k THEN v ELSE f[x]]
Del(f, k) == [x \in (DOMAIN f) \ {k} |-> f[x]]

(************************ the environment's inputs *************************)
\* The target day D and the day after it; D - 1 is day 0.
TargetDates == {1, 2}

ReportObject(id, base, ts) ==
    [id |-> id, name |-> <<(<<"reports">>), base>>, time_created |-> ts]

\* The report objects the OCI bucket may hold, in the order list_objects
\* returns them (by name): a created at midnight of D, b on the last tick of
\* D, c (not compressed) on D, n at midnight of D+1, p on the last tick of D-1.
Pool ==
    << ReportObject("a", <<"a", ".csv", ".gz">>, TicksPerDay),
       ReportObject("b", <<"b", ".csv", ".gz">>, 2 * TicksPerDay - 1),
       ReportObject("c", <<"c", ".csv">>, TicksPerDay),
       ReportObject("n", <<"n", ".csv", ".gz">>, 2 * TicksPerDay),
       ReportObject("p", <<"p", ".csv", ".gz">>, TicksPerDay - 1) >>

RECURSIVE SubSeqOf(_, _)
\* the objects of Pool whose index is in S, in Pool's order
SubSeqOf(S, i) ==
    IF i > Len(Pool) THEN <<>>
    ELSE IF i \in S THEN <<Pool[i]>> \o SubSeqOf(S, i + 1)
    ELSE SubSeqOf(S, i + 1)

Listings ==
    { SubSeqOf(S, 1) : S \in { T \in SUBSET (1 .. Len(Pool)) : Cardinality(T) <= MaxObjs } }

\* Report objects whose names meet once the folder or a ".gz" is dropped,
\* in listing order: reports/a.csv.gz, reports/a.gz.csv.gz and
\* usage/a.csv.gz, all created on D, and reports/p.csv.gz of D-1.
Twins ==
    << Pool[1],
       ReportObject("g", <<"a", ".gz", ".csv", ".gz">>, TicksPerDay),
       Pool[5],
       [id |-> "u", name |-> <<(<<"usage">>), <<"a", ".csv", ".gz">>>>,
        time_created |-> TicksPerDay] >>

RECURSIVE TwinsOf(_, _)
\* the objects of Twins whose index is in S, in listing order
TwinsOf(S, i) ==
    IF i > Len(Twins) THEN <<>>
    ELSE IF i \in S THEN <<Twins[i]>> \o TwinsOf(S, i + 1)
    ELSE TwinsOf(S, i + 1)

TwinListings ==
    { TwinsOf(S, 1) : S \in { T \in SUBSET (1 .. Len(Twins)) : Cardinality(T) <= MaxObjs } }

GCS_STAGING_FOLDER == <<"staging">>
GCS_ARCHIVE_FOLDER == <<"archive">>

\* What may already sit under the staging prefix when a run starts: the
\* zero-byte folder marker "staging/", a file left by an earlier run, and an
\* object one level deeper that has the base name of a staged report.
FolderMarker == <<GCS_STAGING_FOLDER, <<>>>>
LeftOver == <<GCS_STAGING_FOLDER, <<"old", ".csv">>>>
Nested == <<GCS_STAGING_FOLDER, <<"x">>, <<"a", ".csv">>>>
PreContent(name) ==
    IF name = FolderMarker THEN "empty" ELSE IF name = LeftOver THEN "old" ELSE "nested"
InitialBuckets ==
    { [n \in S |-> PreContent(n)] :
        S \in { {}, {FolderMarker}, {FolderMarker, LeftOver}, {Nested} } }

Contents ==
    { Pool[i].id : i \in 1 .. Len(Pool) } \cup { Twins[i].id : i \in 1 .. Len(Twins) }
        \cup {"old", "nested"}

(************************* one invocation of main **************************)
\* A run that has not started: nothing on its disk, nothing done.
IdleRun ==
    [ pc |-> "idle",
      target_date |-> 0,
      key_file |-> FALSE,        \* TEMP_OCI_KEY_FILE exists
      config_file |-> FALSE,     \* TEMP_OCI_CONFIG_FILE exists
      download_dir |-> FALSE,    \* LOCAL_DOWNLOAD_DIR exists
      csv_dir |-> FALSE,         \* LOCAL_CSV_DIR exists
      log_file |-> FALSE,        \* LOCAL_LOG_FILE_PATH exists
      oci_ini_content |-> <<>>,  \* main's local: the INI payload, until the client is built
      oci_config_data |-> <<>>,  \* main's local: the loaded profile, until the client is built
      idx |-> 0,                 \* position of the loop over the listing
      downloaded_count |-> 0,
      uploaded_count |-> 0,
      downloaded |-> {},         \* ids of the objects get_object was called for
      gz_files |-> {},           \* the files written in full under LOCAL_DOWNLOAD_DIR
      csv_files |-> {},          \* the files gzip wrote in full under LOCAL_CSV_DIR
      decompressed |-> {},       \* ids of the objects gzip wrote out in full
      decompress_failed |-> {},  \* ids for which decompress_gz_file returned None
      upload_failed |-> {},      \* ids for which upload_to_gcs returned False
      staged |-> {},             \* blob names this run uploaded to staging
      raised |-> "none",         \* the stage whose exception reached main's except
      created_dataset |-> FALSE, \* create_dataset returned for this run
      load_jobs |-> 0,           \* load_table_from_uri calls
      loaded |-> FALSE,          \* load_gcs_to_bigquery returned
      staging_before_load |-> {},\* blob names under staging when load_gcs_to_bigquery began
      files_to_move |-> {},      \* the listing archive_staged_files_in_gcs took
      archive_called |-> FALSE,
      archived |-> FALSE,        \* archive_staged_files_in_gcs returned
      moved_count |-> 0,
      source_blob |-> <<>>,      \* the blob rename_blob has copied and not yet deleted
      renamed |-> {},            \* blob names rename_blob moved for this run
      moved |-> {},              \* <<name, content>> of each blob when it was moved
      not_removed |-> {},        \* what cleanup could not remove (a warning each)
      already_archived |-> FALSE,\* at the start, the target date's reports were
                                 \* in the archive and their rows in the table
      log_upload |-> "none",     \* the final upload_to_gcs: "ok", "failed" or "raised"
      exit |-> "none" ]          \* how main ended: "returned" or "exception"

\* detect_changes.py is not running
IdleScript ==
    [ pc |-> "idle",
      folders |-> <<>>,          \* the folder configurations, in configuration order
      changed_files |-> <<>>,    \* what get_changed_files returned
      i |-> 0,                   \* position of the loop over folders
      changed_folders |-> <<>>,  \* detect_folder_changes' result so far
      changedModules |-> <<>>,   \* the pipeline variable, <<>> while not set
      exit_status |-> -1 ]       \* the status the script exited with, -1 before

\* The operations that may fail, by the stage they belong to.
AllFaults ==
    {"secret", "config", "list", "download", "decompress", "upload",
     "dataset", "load", "archive", "cleanup"}

\* TRUE, and FALSE as well when the environment may fail the operation
Ok(f) == IF f \in faults THEN BOOLEAN ELSE {TRUE}
\* "ok", and the failing outcomes as well when the environment may fail it
Allowed(f, outcomes) == IF f \in faults THEN outcomes ELSE {"ok"}

\* One invocation of main, with any listing, any bucket and any failure.
Init ==
    /\ mode = "once"
    /\ faults = AllFaults
    /\ oci \in Listings
    /\ gcs \in InitialBuckets
    /\ dataset \in BOOLEAN
    /\ table = [c \in Contents |-> 0]
    /\ runsStarted = 0
    /\ run = [r \in Runs |-> IdleRun]
    /\ script = IdleScript

\* Invocations that follow each other on an empty bucket; the load and the
\* archive may fail.
InitRerun ==
    /\ mode = "seq"
    /\ faults = {"load", "archive"}
    /\ oci \in { l \in Listings : Len(l) <= 2 }
    /\ gcs = <<>>
    /\ dataset \in BOOLEAN
    /\ table = [c \in Contents |-> 0]
    /\ runsStarted = 0
    /\ run = [r \in Runs |-> IdleRun]
    /\ script = IdleScript

\* Two invocations that interleave on an empty bucket; nothing fails but
\* what the other invocation causes.
InitConc ==
    /\ mode = "conc"
    /\ faults = {}
    /\ oci \in { l \in Listings : Len(l) <= 2 }
    /\ gcs = <<>>
    /\ dataset \in BOOLEAN
    /\ table = [c \in Contents |-> 0]
    /\ runsStarted = 0
    /\ run = [r \in Runs |-> IdleRun]
    /\ script = IdleScript

\* One invocation of main over report objects whose names meet, on an empty
\* bucket; a decompression or an upload may fail.
InitNames ==
    /\ mode = "once"
    /\ faults = {"decompress", "upload"}
    /\ oci \in TwinListings
    /\ gcs = <<>>
    /\ dataset \in BOOLEAN
    /\ table = [c \in Contents |-> 0]
    /\ runsStarted = 0
    /\ run = [r \in Runs |-> IdleRun]
    /\ script = IdleScript

\* One invocation of main over a listing of at most two objects, on an empty
\* bucket, with any failure.
InitLive ==
    /\ mode = "once"
    /\ faults = AllFaults
    /\ oci \in { l \in Listings : Len(l) <= 2 }
    /\ gcs = <<>>
    /\ dataset \in BOOLEAN
    /\ table = [c \in Contents |-> 0]
    /\ runsStarted = 0
    /\ run = [r \in Runs |-> IdleRun]
    /\ script = IdleScript

At(r, pc) == run[r].pc = pc

\* the blob a staged report ends as in the archive
ArchivedName(obj) == <<GCS_ARCHIVE_FOLDER, RemoveGz(Basename(obj.name))>>

\* The compressed reports of day d were loaded and archived before.
AlreadyArchived(d) ==
    LET sel == { i \in 1 .. Len(oci) :
                   DateOf(oci[i].time_created) = d /\ EndsWithGz(oci[i].name) }
    IN /\ sel # {}
       /\ \A i \in sel : /\ ArchivedName(oci[i]) \in DOMAIN gcs
                         /\ gcs[ArchivedName(oci[i])] = oci[i].id
                         /\ table[oci[i].id] >= 1

\* main is invoked: setup_logging opens the local log file. The local disk
\* is what the previous invocation left.
Start(r) ==
    /\ CASE mode = "once" -> r = 1 /\ run[r].pc = "idle"
         [] mode = "seq" -> r = 1 /\ run[r].pc \in {"idle", "done"} /\ runsStarted < MaxRuns
         [] OTHER -> run[r].pc = "idle"
    /\ \E d \in TargetDates :
         run' = [run EXCEPT ![r] =
                   [IdleRun EXCEPT !.pc = "secret_config",
                                   !.target_date = d,
                                   !.already_archived = AlreadyArchived(d),
                                   !.key_file = run[r].key_file,
                                   !.config_file = run[r].config_file,
                                   !.download_dir = run[r].download_dir,
                                   !.csv_dir = run[r].csv_dir,
                                   !.log_file = TRUE]]
    /\ runsStarted' = runsStarted + 1
    /\ UNCHANGED <<script, mode, faults, oci, gcs, dataset, table>>

\* the exception is logged where it was raised and main goes on with the
\* archive
RaisedGoesOn(rec, stage) ==
    [rec EXCEPT !.raised = stage, !.pc = "archive_list",
                !.oci_ini_content = <<>>, !.oci_config_data = <<>>]

\* An exception reaches "except Exception" of main: it is logged and the
\* finally block follows.
Raised(rec, stage) ==
    [rec EXCEPT !.raised = stage, !.pc = "cleanup_auth",
                !.oci_ini_content = <<>>, !.oci_config_data = <<>>]

\* The INI payloads the config secret may hold, each as its sections with
\* their entries: a [DEFAULT] section with a key_file entry, one without, a
\* payload with no [DEFAULT] section, and one with a second profile.
OldKeyFile == <<"~", ".oci", "old.pem">>
Profile == [user |-> <<"u">>, tenancy |-> <<"t">>]
IniPayloads ==
    { "DEFAULT" :> Put(Profile, "key_file", OldKeyFile),
      "DEFAULT" :> Profile,
      "OTHER" :> Put(Profile, "key_file", OldKeyFile),
      ("DEFAULT" :> Put(Profile, "key_file", OldKeyFile))
          @@ ("OTHER" :> Put(Profile, "key_file", OldKeyFile)) }

\* the exception of the secret store is logged and not re-raised: main goes
\* on to write the credential files
SecretRaisedGoesOn(rec) == [rec EXCEPT !.raised = "secret", !.pc = "config"]

\* lines 73-75: read_secret_text logs the exception and re-raises it to main
SecretRaised(rec) == Raised(rec, "secret")

\* read_secret_text(GCP_OCI_CONFIG_SECRET_ID): returns the payload or re-raises
ReadConfigSecret(r) ==
    /\ At(r, "secret_config")
    /\ \E ok \in Ok("secret"), ini \in IniPayloads :
         run' = [run EXCEPT ![r] =
                   IF ok THEN [@ EXCEPT !.oci_ini_content = ini, !.pc = "secret_key"]
                   ELSE SecretRaised(@)]
    /\ UNCHANGED <<script, mode, faults, oci, gcs, dataset, table, runsStarted>>

\* read_secret_text(GCP_OCI_KEY_SECRET_ID)
ReadKeySecret(r) ==
    /\ At(r, "secret_key")
    /\ \E ok \in Ok("secret") :
         run' = [run EXCEPT ![r] =
                   IF ok THEN [@ EXCEPT !.pc = "config"] ELSE SecretRaised(@)]
    /\ UNCHANGED <<script, mode, faults, oci, gcs, dataset, table, runsStarted>>

TEMP_OCI_KEY_FILE == <<"oci_api_key_temp.pem">>
\* os.path.abspath(path): the working directory in front of a relative path
AbsPath(path) == <<"cwd">> \o path

\* config_parser.read_string: the entries of [DEFAULT] are the parser's
\* defaults, every other section is a section of its own
ReadString(ini) ==
    [ defaults |-> IF "DEFAULT" \in DOMAIN ini THEN ini["DEFAULT"] ELSE <<>>,
      sections |-> [sec \in (DOMAIN ini) \ {"DEFAULT"} |-> ini[sec]] ]

\* config_parser.has_section(name), which never holds of the default section
HasSection(config_parser, name) == name \in DOMAIN config_parser.sections

\* line 138, "'DEFAULT' in config_parser": the default section is in every
\* parser, with or without a [DEFAULT] header in the text
InParser(config_parser, name) ==
    name = "DEFAULT" \/ name \in DOMAIN config_parser.sections

\* lines 138-144: the key_file entry of DEFAULT is set to the absolute path
SetKeyFile(config_parser) ==
    IF InParser(config_parser, "DEFAULT")
      THEN [config_parser EXCEPT
              !.defaults = Put(@, "key_file", AbsPath(TEMP_OCI_KEY_FILE))]
      ELSE config_parser

\* config_parser.write(f): the profile file, [DEFAULT] and the sections
WriteProfile(config_parser) ==
    [sec \in {"DEFAULT"} \cup DOMAIN config_parser.sections |->
        IF sec = "DEFAULT" THEN config_parser.defaults
        ELSE config_parser.sections[sec]]

\* oci.config.from_file(file_location, profile_name): the entries of the
\* profile as the file has them
FromFile(profile_file, profile_name) == profile_file[profile_name]

\* create_oci_config_dict_from_ini: write the key file, parse the INI, write
\* the profile file, load it with the SDK; each of the four steps may raise.
ConfigOutcomes == {"key_io", "parse", "config_io", "from_file", "ok"}

\* the function removes its two temporary files once the SDK has loaded the
\* profile
ConfigLoadedFilesRemoved(rec, config) ==
    [rec EXCEPT !.key_file = FALSE, !.config_file = FALSE,
                !.oci_config_data = config, !.pc = "connect"]

\* lines 156-158 and main's line 421: the function returns the mapping the
\* SDK loaded and leaves both files on disk; main goes on with the fetch
ConfigLoaded(rec, config) == [rec EXCEPT !.oci_config_data = config, !.pc = "connect"]

CreateOciConfig(r) ==
    /\ At(r, "config")
    /\ \E out \in Allowed("config", ConfigOutcomes) :
         run' = [run EXCEPT ![r] =
                   LET k == [@ EXCEPT !.key_file = TRUE]
                       kc == [k EXCEPT !.config_file = TRUE]
                       profile_file ==
                           WriteProfile(SetKeyFile(ReadString(run[r].oci_ini_content)))
                   IN CASE out = "key_io" -> Raised(@, "config")
                        [] out = "parse" -> Raised(k, "config")
                        [] out = "config_io" -> Raised(k, "config")
                        [] out = "from_file" -> Raised(kc, "config")
                        [] OTHER -> ConfigLoaded(kc, FromFile(profile_file, "DEFAULT"))]
    /\ UNCHANGED <<script, mode, faults, oci, gcs, dataset, table, runsStarted>>

(***************************** the fetch loop ******************************)
\* the filter compares the timestamps and takes everything within a day of
\* the target day's midnight
SelectedWithinADay(obj, target_date) ==
    /\ obj.time_created > (target_date - 1) * TicksPerDay
    /\ obj.time_created < (target_date + 1) * TicksPerDay

\* line 231: "if report_creation_date != target_date: continue"
Selected(obj, target_date) == DateOf(obj.time_created) = target_date

None == <<>>
LOCAL_DOWNLOAD_DIR == <<"oci_downloads">>
LOCAL_CSV_DIR == <<"oci_csv">>

\* decompress_gz_file: the path it returns; ok says whether gzip could read
\* the file and write it out.
DecompressGzFile(gz_path, destination_dir, ok) ==
    IF ~EndsWithGz(gz_path) THEN gz_path
    ELSE IF ok THEN <<destination_dir, RemoveGz(Basename(gz_path))>>
    ELSE None

\* upload_to_gcs: gcs_path = folder_name.strip('/') + "/" + basename
GcsPath(local_file_path, folder_name) == <<folder_name, Basename(local_file_path)>>

\* a report that is already under the staging or the archive prefix is not
\* uploaded again
ShouldUploadOnce(uncompressed_path, gz_file_path) ==
    /\ uncompressed_path # None /\ uncompressed_path # gz_file_path
    /\ GcsPath(uncompressed_path, GCS_STAGING_FOLDER) \notin DOMAIN gcs
    /\ GcsPath(uncompressed_path, GCS_ARCHIVE_FOLDER) \notin DOMAIN gcs

\* line 258: "if uncompressed_path and uncompressed_path != gz_file_path"
ShouldUpload(uncompressed_path, gz_file_path) ==
    uncompressed_path # None /\ uncompressed_path # gz_file_path

\* main, lines 424-427: the statement after fetch_oci_reports returns
AfterFetch(rec) == "load_get"

\* the loop moves on to the next listed object, or the function returns
Advance(rec) ==
    [rec EXCEPT !.idx = @ + 1,
                !.pc = IF rec.idx + 1 > Len(oci) THEN AfterFetch(rec) ELSE "fetch"]

\* fetch_oci_reports up to the loop: the client, the local directories and
\* the paginated listing; the client and the listing may raise, and line
\* 205, oci_config['tenancy'], raises for a profile without that entry.
ConnectOutcomes == {"client", "list", "ok"}
ConnectAndList(r) ==
    /\ At(r, "connect")
    /\ \E out \in (IF "tenancy" \in DOMAIN run[r].oci_config_data
                    THEN Allowed("list", ConnectOutcomes) ELSE {"client"}) :
         run' = [run EXCEPT ![r] =
                   LET d == [@ EXCEPT !.download_dir = TRUE, !.csv_dir = TRUE,
                                      !.oci_ini_content = <<>>,
                                      !.oci_config_data = <<>>]
                   IN CASE out = "client" -> Raised(@, "list")
                        [] out = "list" -> Raised(d, "list")
                        [] OTHER -> Advance([d EXCEPT !.idx = 0])]
    /\ UNCHANGED <<script, mode, faults, oci, gcs, dataset, table, runsStarted>>

\* the failed decompression is raised instead of skipped
DecompressFailedAborts(rec, obj) ==
    Raised([rec EXCEPT !.decompress_failed = @ \cup {obj.id}], "decompress")

\* what the loop does after decompress_gz_file returned None for obj
DecompressFailed(rec, obj) ==
    Advance([rec EXCEPT !.decompress_failed = @ \cup {obj.id}])

\* the upload is counted before its result is looked at
UploadFailedCounted(rec, obj) ==
    Advance([rec EXCEPT !.upload_failed = @ \cup {obj.id},
                        !.uploaded_count = @ + 1])

\* lines 260-266: upload_to_gcs returned False for obj; uploaded_count is
\* left alone and the loop goes on
UploadFailed(rec, obj) ==
    Advance([rec EXCEPT !.upload_failed = @ \cup {obj.id}])

\* the exception of the download is logged and the loop goes on with the
\* next object
DownloadRaisedGoesOn(rec, obj) == Advance([rec EXCEPT !.raised = "download"])

\* what the loop does after get_object or the streaming write raised
DownloadRaised(rec, obj) == Raised(rec, "download")

\* an object of another day: continue
SkipObject(r) ==
    /\ At(r, "fetch")
    /\ run[r].idx <= Len(oci)
    /\ ~Selected(oci[run[r].idx], run[r].target_date)
    /\ run' = [run EXCEPT ![r] = Advance(@)]
    /\ UNCHANGED <<script, mode, faults, oci, gcs, dataset, table, runsStarted>>

\* one full iteration for a selected object: download, decompress, upload.
\* get_object or the write of the local file may raise, and so may
\* storage.Client in upload_to_gcs (line 88, outside its try), which ends the
\* function; a failed decompression or upload_from_filename does not.
ProcessObject(r) ==
    /\ At(r, "fetch")
    /\ run[r].idx <= Len(oci)
    /\ Selected(oci[run[r].idx], run[r].target_date)
    /\ \E dl_ok \in Ok("download"), gz_ok \in Ok("decompress"),
          cl_ok \in Ok("upload"), up_ok \in Ok("upload") :
         LET obj == oci[run[r].idx]
             filename == Basename(obj.name)
             gz_file_path == <<LOCAL_DOWNLOAD_DIR, filename>>
             uncompressed_path == DecompressGzFile(gz_file_path, LOCAL_CSV_DIR, gz_ok)
             tried == [run[r] EXCEPT !.downloaded = @ \cup {obj.id}]
             got == [tried EXCEPT !.downloaded_count = @ + 1,
                                  !.gz_files = @ \cup {gz_file_path},
                                  !.decompressed =
                                      IF EndsWithGz(gz_file_path) /\ gz_ok
                                        THEN @ \cup {obj.id} ELSE @,
                                  !.csv_files =
                                      IF EndsWithGz(gz_file_path) /\ gz_ok
                                        THEN @ \cup {uncompressed_path} ELSE @]
             blob == GcsPath(uncompressed_path, GCS_STAGING_FOLDER)
         IN IF ~dl_ok
              THEN /\ run' = [run EXCEPT ![r] = DownloadRaised(tried, obj)]
                   /\ gcs' = gcs
            ELSE IF uncompressed_path = None
              THEN /\ run' = [run EXCEPT ![r] = DecompressFailed(got, obj)]
                   /\ gcs' = gcs
            ELSE IF ~ShouldUpload(uncompressed_path, gz_file_path)
              THEN /\ run' = [run EXCEPT ![r] = Advance(got)]
                   /\ gcs' = gcs
            ELSE IF ~cl_ok
              THEN /\ run' = [run EXCEPT ![r] = Raised(got, "upload")]
                   /\ gcs' = gcs
            ELSE IF up_ok
              THEN /\ run' = [run EXCEPT ![r] =
                                Advance([got EXCEPT !.uploaded_count = @ + 1,
                                                    !.staged = @ \cup {blob}])]
                   /\ gcs' = Put(gcs, blob, obj.id)
            ELSE /\ run' = [run EXCEPT ![r] = UploadFailed(got, obj)]
                 /\ gcs' = gcs
    /\ UNCHANGED <<script, mode, faults, oci, dataset, table, runsStarted>>

(*************************** the BigQuery load *****************************)
\* name.startswith(folder + "/")
HasPrefix(name, folder) == Len(name) >= 2 /\ name[1] = folder

\* bucket.list_blobs(prefix=source_prefix)
ListBlobs(source_prefix) == { n \in DOMAIN gcs : HasPrefix(n, source_prefix) }

\* the blobs GCS_LOAD_URI, a glob over the staging prefix, matches
LoadSources == ListBlobs(GCS_STAGING_FOLDER)

\* WRITE_TRUNCATE: the rows of the source files replace the table's rows
ReplaceRows(tbl, names) ==
    [c \in Contents |-> Cardinality({ n \in names : gcs[n] = c })]

\* WRITE_APPEND: the rows of every source file are added to the table's rows
AppendRows(tbl, names) ==
    [c \in Contents |-> tbl[c] + Cardinality({ n \in names : gcs[n] = c })]

\* the exception of the load is logged and not re-raised: main goes on
LoadRaisedSwallowed(rec) == [rec EXCEPT !.raised = "load", !.pc = "archive_list"]

\* an exception inside load_gcs_to_bigquery: logged and re-raised to main
LoadRaised(rec) == Raised(rec, "load")

\* NotFound is caught and nothing is created
AfterGetDatasetNoCreate(exists) == "load_job"

\* lines 302-307: create_dataset is called only in "except NotFound"
AfterGetDataset(exists) == IF exists THEN "load_job" ELSE "load_create"

\* the reports are fetched after the load, and once more
AfterLoadFetches(rec) == IF rec.load_jobs < 2 THEN "connect" ELSE "archive_list"

\* main, lines 435-442: the statement after load_gcs_to_bigquery returns
AfterLoad(rec) == "archive_list"

\* client.get_dataset: returns, raises NotFound, or raises something else
GetDataset(r) ==
    /\ At(r, "load_get")
    /\ \/ run' = [run EXCEPT ![r] =
                    [@ EXCEPT !.staging_before_load = ListBlobs(GCS_STAGING_FOLDER),
                              !.pc = AfterGetDataset(dataset)]]
       \/ /\ "dataset" \in faults
          /\ run' = [run EXCEPT ![r] =
                       LoadRaised([@ EXCEPT !.staging_before_load = ListBlobs(GCS_STAGING_FOLDER)])]
    /\ UNCHANGED <<script, mode, faults, oci, gcs, dataset, table, runsStarted>>

\* client.create_dataset after NotFound: creates it, or raises (Conflict when
\* the dataset exists by now, or any other error)
CreateDataset(r) ==
    /\ At(r, "load_create")
    /\ \/ /\ ~dataset
          /\ dataset' = TRUE
          /\ run' = [run EXCEPT ![r] =
                       [@ EXCEPT !.created_dataset = TRUE, !.pc = "load_job"]]
       \/ /\ dataset \/ "dataset" \in faults
          /\ dataset' = dataset
          /\ run' = [run EXCEPT ![r] = LoadRaised(@)]
    /\ UNCHANGED <<script, mode, faults, oci, gcs, table, runsStarted>>

\* load_table_from_uri, load_job.result() and get_table
LoadOutcomes == {"job_fails", "get_table_fails", "ok"}
LoadJob(r) ==
    /\ At(r, "load_job")
    /\ \E out \in Allowed("load", LoadOutcomes) :
         LET issued == [run[r] EXCEPT !.load_jobs = @ + 1]
         IN CASE out = "job_fails" ->
                   /\ table' = table
                   /\ run' = [run EXCEPT ![r] = LoadRaised(issued)]
              [] out = "get_table_fails" ->
                   /\ table' = AppendRows(table, LoadSources)
                   /\ run' = [run EXCEPT ![r] = LoadRaised(issued)]
              [] OTHER ->
                   /\ table' = AppendRows(table, LoadSources)
                   /\ run' = [run EXCEPT ![r] =
                                [issued EXCEPT !.loaded = TRUE, !.pc = AfterLoad(issued)]]
    /\ UNCHANGED <<script, mode, faults, oci, gcs, dataset, runsStarted>>

(***************************** the GCS archive *****************************)
\* only the direct children of the prefix are taken
FilesToMoveFlat(blobs_to_move) ==
    { n \in blobs_to_move : ~EndsWithSlash(n) /\ Len(n) = 2 }

\* every listed blob is taken, the folder marker too
FilesToMoveAll(blobs_to_move) == blobs_to_move

\* line 358: the listed blobs that are not folder markers
FilesToMove(blobs_to_move) == { n \in blobs_to_move : ~EndsWithSlash(n) }

\* line 369: destination_blob_name = dest_prefix + os.path.basename(source name)
DestinationBlobName(dest_prefix, name) == <<dest_prefix, Basename(name)>>

\* Bucket.rename_blob of google-cloud-storage is two requests: copy_blob to
\* the new name, replacing what had it, and then delete of the source blob.
CopyBlob(bucket, name, new_name) == Put(bucket, new_name, bucket[name])
DeleteBlob(bucket, name) == Del(bucket, name)

\* archive_staged_files_in_gcs up to the loop: the listing may raise; with
\* nothing to move the function returns 0
ArchiveList(r) ==
    /\ At(r, "archive_list")
    /\ \/ run' = [run EXCEPT ![r] =
                    LET files == FilesToMove(ListBlobs(GCS_STAGING_FOLDER))
                    IN [@ EXCEPT !.archive_called = TRUE,
                                 !.files_to_move = files,
                                 !.archived = (files = {}),
                                 !.pc = IF files = {} THEN "cleanup_auth"
                                        ELSE "archive_move"]]
       \/ /\ "archive" \in faults
          /\ run' = [run EXCEPT ![r] =
                       Raised([@ EXCEPT !.archive_called = TRUE], "archive")]
    /\ UNCHANGED <<script, mode, faults, oci, gcs, dataset, table, runsStarted>>

\* one iteration of the loop, first request of rename_blob: the blob is
\* copied to its archive name, or the request raises (also when the blob is
\* no longer there)
ArchiveMove(r) ==
    /\ At(r, "archive_move")
    /\ \E n \in run[r].files_to_move \ run[r].renamed :
         \/ /\ n \in DOMAIN gcs
            /\ gcs' = CopyBlob(gcs, n, DestinationBlobName(GCS_ARCHIVE_FOLDER, n))
            /\ run' = [run EXCEPT ![r] =
                         [@ EXCEPT !.source_blob = n, !.pc = "archive_delete"]]
         \/ /\ n \notin DOMAIN gcs \/ "archive" \in faults
            /\ gcs' = gcs
            /\ run' = [run EXCEPT ![r] = Raised(@, "archive")]
    /\ UNCHANGED <<script, mode, faults, oci, dataset, table, runsStarted>>

\* second request of rename_blob: the source blob is deleted and moved_count
\* goes up, or the request raises; after the last blob the function returns
ArchiveDelete(r) ==
    /\ At(r, "archive_delete")
    /\ LET n == run[r].source_blob
       IN \/ /\ n \in DOMAIN gcs
             /\ gcs' = DeleteBlob(gcs, n)
             /\ run' = [run EXCEPT ![r] =
                          LET done == run[r].files_to_move = run[r].renamed \cup {n}
                          IN [@ EXCEPT !.source_blob = None,
                                       !.renamed = @ \cup {n},
                                       !.moved = @ \cup {<<n, gcs[n]>>},
                                       !.moved_count = @ + 1,
                                       !.archived = done,
                                       !.pc = IF done THEN "cleanup_auth"
                                              ELSE "archive_move"]]
          \/ /\ n \notin DOMAIN gcs \/ "archive" \in faults
             /\ gcs' = gcs
             /\ run' = [run EXCEPT ![r] =
                          Raised([@ EXCEPT !.source_blob = None], "archive")]
    /\ UNCHANGED <<script, mode, faults, oci, dataset, table, runsStarted>>

(******************************* cleanup ***********************************)
\* the removal of the temporary files sits at the end of the try block
\* instead of in finally: it is skipped when a stage raised
RemoveUnlessRaised(rec, exists, err) == exists /\ (err \/ rec.raised # "none")

\* lines 454-459: whether a temporary file is still there afterwards
StillThere(rec, exists, err) == exists /\ err

\* the finally block, lines 453-459: each temporary file that exists is
\* removed; an OSError from os.remove leaves it and logs a warning
CleanupAuth(r) ==
    /\ At(r, "cleanup_auth")
    /\ \E cfg_err, key_err \in {~ok : ok \in Ok("cleanup")} :
         run' = [run EXCEPT ![r] =
                   [@ EXCEPT !.config_file = StillThere(run[r], @, cfg_err),
                             !.key_file = StillThere(run[r], @, key_err),
                             !.not_removed =
                                 @ \cup (IF run[r].config_file /\ cfg_err
                                           THEN {"config_file"} ELSE {})
                                   \cup (IF run[r].key_file /\ key_err
                                           THEN {"key_file"} ELSE {}),
                             !.pc = "cleanup_dirs"]]
    /\ UNCHANGED <<script, mode, faults, oci, gcs, dataset, table, runsStarted>>

\* the directories are removed at the end of the try block instead of in
\* finally: they stay when a stage raised
DirKeptAfterFailure(rec, exists, err) == exists /\ (err \/ rec.raised # "none")

\* lines 387-392: whether a directory is still there after
\* clean_up_local_directories
DirStillThere(rec, exists, err) == exists /\ err

\* clean_up_local_directories: rmtree of each directory that exists; an
\* OSError leaves it and logs a warning
CleanupDirs(r) ==
    /\ At(r, "cleanup_dirs")
    /\ \E dl_err, csv_err \in {~ok : ok \in Ok("cleanup")} :
         run' = [run EXCEPT ![r] =
                   [@ EXCEPT !.download_dir = DirStillThere(run[r], @, dl_err),
                             !.csv_dir = DirStillThere(run[r], @, csv_err),
                             !.not_removed =
                                 @ \cup (IF run[r].download_dir /\ dl_err
                                           THEN {"download_dir"} ELSE {})
                                   \cup (IF run[r].csv_dir /\ csv_err
                                           THEN {"csv_dir"} ELSE {}),
                             !.pc = "upload_log"]]
    /\ UNCHANGED <<script, mode, faults, oci, gcs, dataset, table, runsStarted>>

\* the local log is removed whatever upload_to_gcs returned
LogRemovedAlways(log_upload_status, remove_ok) == remove_ok

\* lines 473-477: os.remove(LOCAL_LOG_FILE_PATH) is under "if
\* log_upload_status"; whether the local log is gone afterwards
LogRemoved(log_upload_status, remove_ok) == log_upload_status /\ remove_ok

\* lines 465-477: the log upload and the removal of the local log. main has
\* swallowed every exception of the pipeline, so it returns normally unless
\* storage.Client or os.remove raises here.
LogOutcomes == {"client_raises", "upload_fails", "remove_raises", "ok"}
UploadLog(r) ==
    /\ At(r, "upload_log")
    /\ \E out \in Allowed("cleanup", LogOutcomes) :
         run' = [run EXCEPT ![r] =
                   IF ~run[r].log_file THEN [@ EXCEPT !.pc = "done", !.exit = "returned"]
                   ELSE CASE out = "client_raises" ->
                               [@ EXCEPT !.pc = "done", !.exit = "exception",
                                         !.log_upload = "raised"]
                          [] out = "upload_fails" ->
                               [@ EXCEPT !.pc = "done", !.exit = "returned",
                                         !.log_upload = "failed",
                                         !.log_file = ~LogRemoved(FALSE, TRUE)]
                          [] out = "remove_raises" ->
                               [@ EXCEPT !.pc = "done", !.exit = "exception",
                                         !.log_upload = "ok",
                                         !.log_file = ~LogRemoved(TRUE, FALSE)]
                          [] OTHER ->
                               [@ EXCEPT !.pc = "done", !.exit = "returned",
                                         !.log_upload = "ok",
                                         !.log_file = ~LogRemoved(TRUE, TRUE)]]
    /\ UNCHANGED <<script, mode, faults, oci, gcs, dataset, table, runsStarted>>

(************************** the specifications *****************************)
Next ==
    \E r \in Runs :
        \/ Start(r)
        \/ ReadConfigSecret(r)
        \/ ReadKeySecret(r)
        \/ CreateOciConfig(r)
        \/ ConnectAndList(r)
        \/ SkipObject(r)
        \/ ProcessObject(r)
        \/ GetDataset(r)
        \/ CreateDataset(r)
        \/ LoadJob(r)
        \/ ArchiveList(r)
        \/ ArchiveMove(r)
        \/ ArchiveDelete(r)
        \/ CleanupAuth(r)
        \/ CleanupDirs(r)
        \/ UploadLog(r)

\* one invocation of main
Spec == Init /\ [][Next]_vars

\* invocations of main that follow each other
SpecRerun == InitRerun /\ [][Next]_vars

\* two invocations of main that interleave
SpecConc == InitConc /\ [][Next]_vars

\* one invocation of main over report objects whose names meet
SpecNames == InitNames /\ [][Next]_vars

\* one invocation of main that is not halted from outside: the interpreter
\* executes main's statements one after the other, and every call main makes
\* returns or raises, so a step that is possible is eventually taken
SpecLive == InitLive /\ [][Next]_vars /\ WF_vars(Next)

(******************* the download-only variant, python1.py *****************)
\* One variant invocation after the other on one disk, with an empty bucket
\* that the variant never touches; any call may fail.
InitDownloadOnly ==
    /\ mode = "download_only"
    /\ faults = {"secret", "config", "list", "download", "decompress", "cleanup"}
    /\ oci \in Listings
    /\ gcs = <<>>
    /\ dataset = FALSE
    /\ table = [c \in Contents |-> 0]
    /\ runsStarted = 0
    /\ run = [r \in Runs |-> IdleRun]
    /\ script = IdleScript

\* python1.py, default of destination_dir
DESTINATION_DIR == <<"downloaded_reports">>

RECURSIVE InsertByTime(_, _)
\* obj behind every report that is not older than it
InsertByTime(reports, obj) ==
    IF reports = <<>> THEN <<obj>>
    ELSE IF Head(reports).time_created >= obj.time_created
      THEN <<Head(reports)>> \o InsertByTime(Tail(reports), obj)
    ELSE <<obj>> \o reports

RECURSIVE SortedReports(_)
\* python1.py line 164: sorted(reports, key=time_created, reverse=True),
\* a stable sort, the most recent first
SortedReports(objects) ==
    IF objects = <<>> THEN <<>>
    ELSE InsertByTime(SortedReports(SubSeq(objects, 1, Len(objects) - 1)),
                      objects[Len(objects)])

\* python1.py lines 177-178
LocalFilePathGz(report) == <<DESTINATION_DIR, Basename(report.name)>>
LocalFilePathCsv(report) == <<DESTINATION_DIR, RemoveGz(Basename(report.name))>>

\* os.path.exists for a file under destination_dir
FileExists(rec, path) == path \in rec.gz_files \cup rec.csv_files

\* python1.py main, lines 278-280: an exception raised before
\* fetch_oci_reports was entered is printed and main returns; nothing is
\* removed
RaisedInMain(rec, stage) ==
    [rec EXCEPT !.raised = stage, !.pc = "done", !.exit = "returned",
                !.oci_ini_content = <<>>, !.oci_config_data = <<>>]

\* python1.py lines 218-223: an exception inside fetch_oci_reports is
\* printed and re-raised, through the finally block of the function
RaisedInFetch(rec, stage) ==
    [rec EXCEPT !.raised = stage, !.pc = "finally",
                !.oci_ini_content = <<>>, !.oci_config_data = <<>>]

\* the loop of fetch_oci_reports moves on, or the function ends
NextReport(rec) ==
    [rec EXCEPT !.idx = @ + 1,
                !.pc = IF rec.idx + 1 > Len(oci) THEN "finally" ELSE "fetch"]

\* the variant's main is invoked; the disk is what the invocation before
\* left: the two temporary files, the destination directory and its files
DownloadOnlyStart(r) ==
    /\ r = 1 /\ run[r].pc \in {"idle", "done"} /\ runsStarted < MaxRuns
    /\ run' = [run EXCEPT ![r] =
                 [IdleRun EXCEPT !.pc = "secret_config",
                                 !.key_file = run[r].key_file,
                                 !.config_file = run[r].config_file,
                                 !.download_dir = run[r].download_dir,
                                 !.gz_files = run[r].gz_files,
                                 !.csv_files = run[r].csv_files,
                                 !.decompressed = run[r].decompressed]]
    /\ runsStarted' = runsStarted + 1
    /\ UNCHANGED <<script, mode, faults, oci, gcs, dataset, table>>

\* python1.py lines 249-253
DownloadOnlyReadConfigSecret(r) ==
    /\ At(r, "secret_config")
    /\ \E ok \in Ok("secret"), ini \in IniPayloads :
         run' = [run EXCEPT ![r] =
                   IF ok THEN [@ EXCEPT !.oci_ini_content = ini, !.pc = "secret_key"]
                   ELSE RaisedInMain(@, "secret")]
    /\ UNCHANGED <<script, mode, faults, oci, gcs, dataset, table, runsStarted>>

\* python1.py lines 257-261
DownloadOnlyReadKeySecret(r) ==
    /\ At(r, "secret_key")
    /\ \E ok \in Ok("secret") :
         run' = [run EXCEPT ![r] =
                   IF ok THEN [@ EXCEPT !.pc = "config"] ELSE RaisedInMain(@, "secret")]
    /\ UNCHANGED <<script, mode, faults, oci, gcs, dataset, table, runsStarted>>

\* python1.py create_oci_config_dict_from_ini, the same four steps as in
\* python.py: an exception of any of them goes to main's except with the
\* files written so far left on disk
DownloadOnlyCreateOciConfig(r) ==
    /\ At(r, "config")
    /\ \E out \in Allowed("config", ConfigOutcomes) :
         run' = [run EXCEPT ![r] =
                   LET k == [@ EXCEPT !.key_file = TRUE]
                       kc == [k EXCEPT !.config_file = TRUE]
                       profile_file ==
                           WriteProfile(SetKeyFile(ReadString(run[r].oci_ini_content)))
                   IN CASE out = "key_io" -> RaisedInMain(@, "config")
                        [] out = "parse" -> RaisedInMain(k, "config")
                        [] out = "config_io" -> RaisedInMain(k, "config")
                        [] out = "from_file" -> RaisedInMain(kc, "config")
                        [] OTHER -> ConfigLoaded(kc, FromFile(profile_file, "DEFAULT"))]
    /\ UNCHANGED <<script, mode, faults, oci, gcs, dataset, table, runsStarted>>

\* fetch_oci_reports up to the loop, python1.py lines 130-169: the client,
\* oci_config['tenancy'], the destination directory, the listing and its
\* sort; with no report the function returns
DownloadOnlyConnectAndList(r) ==
    /\ At(r, "connect")
    /\ \E out \in (IF "tenancy" \in DOMAIN run[r].oci_config_data
                    THEN Allowed("list", ConnectOutcomes) ELSE {"client"}) :
         run' = [run EXCEPT ![r] =
                   LET d == [@ EXCEPT !.download_dir = TRUE,
                                      !.oci_ini_content = <<>>,
                                      !.oci_config_data = <<>>]
                   IN CASE out = "client" -> RaisedInFetch(@, "list")
                        [] out = "list" -> RaisedInFetch(d, "list")
                        [] OTHER -> NextReport([d EXCEPT !.idx = 0])]
    /\ UNCHANGED <<script, mode, faults, oci, gcs, dataset, table, runsStarted>>

\* python1.py lines 181-183: the CSV path exists, continue
DownloadOnlySkipReport(r) ==
    /\ At(r, "fetch")
    /\ run[r].idx <= Len(oci)
    /\ FileExists(run[r], LocalFilePathCsv(SortedReports(oci)[run[r].idx]))
    /\ run' = [run EXCEPT ![r] = NextReport(@)]
    /\ UNCHANGED <<script, mode, faults, oci, gcs, dataset, table, runsStarted>>

\* what one iteration of the loop may end as: get_object raises; the write
\* of the local file raises; gzip raises part-way; os.remove of the
\* compressed file raises; or all of it is done
ReportOutcomes ==
    {"ok"} \cup (IF "download" \in faults THEN {"get", "write"} ELSE {})
           \cup (IF "decompress" \in faults THEN {"gunzip"} ELSE {})
           \cup (IF "cleanup" \in faults THEN {"remove"} ELSE {})

\* python1.py lines 185-211, one iteration for a report whose CSV path does
\* not exist: get_object, the write of the compressed file, gzip into the
\* CSV path, os.remove of the compressed file, downloaded_count += 1. For a
\* name without ".gz" the two paths are one: opening the output truncates
\* the file just downloaded, gzip reads nothing, and the file is removed.
DownloadOnlyProcessReport(r) ==
    /\ At(r, "fetch")
    /\ run[r].idx <= Len(oci)
    /\ ~FileExists(run[r], LocalFilePathCsv(SortedReports(oci)[run[r].idx]))
    /\ \E out \in ReportOutcomes :
         LET report == SortedReports(oci)[run[r].idx]
             local_file_path_gz == LocalFilePathGz(report)
             local_file_path_csv == LocalFilePathCsv(report)
             asked == [run[r] EXCEPT !.downloaded = @ \cup {report.id}]
             written == [asked EXCEPT !.gz_files = @ \cup {local_file_path_gz}]
             partial == [written EXCEPT !.csv_files = @ \cup {local_file_path_csv}]
             unzipped == [partial EXCEPT !.decompressed =
                                             IF local_file_path_csv # local_file_path_gz
                                               THEN @ \cup {report.id} ELSE @]
         IN run' = [run EXCEPT ![r] =
                      CASE out = "get" -> RaisedInFetch(asked, "download")
                        [] out = "write" -> RaisedInFetch(written, "download")
                        [] out = "gunzip" /\ local_file_path_csv # local_file_path_gz ->
                               RaisedInFetch(partial, "decompress")
                        [] out = "remove" -> RaisedInFetch(unzipped, "cleanup")
                        [] OTHER ->
                               NextReport([unzipped EXCEPT
                                   !.gz_files = @ \ {local_file_path_gz},
                                   !.csv_files = @ \ {local_file_path_gz},
                                   !.downloaded_count = @ + 1])]
    /\ UNCHANGED <<script, mode, faults, oci, gcs, dataset, table, runsStarted>>

\* the finally block of fetch_oci_reports, python1.py lines 223-236, and the
\* end of main: each temporary file that exists is removed, the key file
\* first; os.remove is not guarded, so an OSError ends the block and goes to
\* main's except, as an exception of the try block does after the block
DownloadOnlyCleanup(r) ==
    /\ At(r, "finally")
    /\ \E key_err, cfg_err \in {~ok : ok \in Ok("cleanup")} :
         run' = [run EXCEPT ![r] =
                   LET key_raised == run[r].key_file /\ key_err
                       cfg_raised == ~key_raised /\ run[r].config_file /\ cfg_err
                   IN [@ EXCEPT !.key_file = key_raised,
                                !.config_file = @ /\ (key_raised \/ cfg_raised),
                                !.not_removed =
                                    @ \cup (IF key_raised THEN {"key_file"} ELSE {})
                                      \cup (IF cfg_raised THEN {"config_file"} ELSE {}),
                                !.raised = IF key_raised \/ cfg_raised
                                             THEN "cleanup" ELSE @,
                                !.pc = "done",
                                !.exit = "returned"]]
    /\ UNCHANGED <<script, mode, faults, oci, gcs, dataset, table, runsStarted>>

NextDownloadOnly ==
    \E r \in Runs :
        \/ DownloadOnlyStart(r)
        \/ DownloadOnlyReadConfigSecret(r)
        \/ DownloadOnlyReadKeySecret(r)
        \/ DownloadOnlyCreateOciConfig(r)
        \/ DownloadOnlyConnectAndList(r)
        \/ DownloadOnlySkipReport(r)
        \/ DownloadOnlyProcessReport(r)
        \/ DownloadOnlyCleanup(r)

\* invocations of the download-only variant that follow each other
SpecDownloadOnly == InitDownloadOnly /\ [][NextDownloadOnly]_vars

(************** the change detection, ADO/scripts/detect_changes.py ********)
\* A path is the sequence of its characters, taken in tokens: a directory
\* name, "/", "*", a digit or a file name.
MaxFolders == 3   \* most folder configurations
MaxFiles == 2     \* most changed files

\* Folder configurations: two with one name, one whose '*' is inside the
\* path ("iam*2/"), and one whose path is only the wildcard.
FolderPool ==
    { [name |-> "iam", path |-> <<"iam", "/", "*">>],
      [name |-> "net", path |-> <<"net", "/", "*">>],
      [name |-> "iam", path |-> <<"iam", "*", "2", "/">>],
      [name |-> "all", path |-> <<"*">>] }

\* changed files: iam/a, iam2/b, doc/c
FilePool ==
    { <<"iam", "/", "a">>, <<"iam", "2", "/", "b">>, <<"doc", "/", "c">> }

\* the sequences over S of length at most n
SeqsUpTo(S, n) == UNION { [1 .. k -> S] : k \in 0 .. n }

RECURSIVE ReplaceStar(_)
\* line 56: folder['path'].replace('*', '')
ReplaceStar(path) ==
    IF path = <<>> THEN <<>>
    ELSE IF Head(path) = "*" THEN ReplaceStar(Tail(path))
    ELSE <<Head(path)>> \o ReplaceStar(Tail(path))

RECURSIVE StartsWith(_, _)
\* line 59: file_path.startswith(folder_path)
StartsWith(file_path, folder_path) ==
    IF folder_path = <<>> THEN TRUE
    ELSE IF file_path = <<>> THEN FALSE
    ELSE Head(file_path) = Head(folder_path)
           /\ StartsWith(Tail(file_path), Tail(folder_path))

\* the name is appended for every folder that has a changed file
AppendAlways(changed_folders, folder_name) == Append(changed_folders, folder_name)

\* lines 60-61: the name is appended unless it is in the list already
AppendIfAbsent(changed_folders, folder_name) ==
    IF \E k \in 1 .. Len(changed_folders) : changed_folders[k] = folder_name
      THEN changed_folders
    ELSE Append(changed_folders, folder_name)

RECURSIVE ScanFiles(_, _, _, _)
\* lines 58-62, the loop over changed_files from position j on: at the
\* first file that starts with folder_path the name is added and the loop
\* breaks
ScanFiles(changed_files, j, folder, changed_folders) ==
    IF j > Len(changed_files) THEN changed_folders
    ELSE IF StartsWith(changed_files[j], ReplaceStar(folder.path))
      THEN AppendIfAbsent(changed_folders, folder.name)
    ELSE ScanFiles(changed_files, j + 1, folder, changed_folders)

RECURSIVE Join(_, _)
\* line 75: separator.join(changed_modules)
Join(separator, changed_modules) ==
    IF changed_modules = <<>> THEN <<>>
    ELSE IF Len(changed_modules) = 1 THEN <<Head(changed_modules)>>
    ELSE <<Head(changed_modules), separator>> \o Join(separator, Tail(changed_modules))

\* main has parsed and validated the folder configurations and
\* get_changed_files has returned; the pipeline is not part of this run
InitDetect ==
    /\ mode = "detect"
    /\ faults = {}
    /\ oci = <<>>
    /\ gcs = <<>>
    /\ dataset = FALSE
    /\ table = [c \in Contents |-> 0]
    /\ runsStarted = 0
    /\ run = [r \in Runs |-> IdleRun]
    /\ \E folders \in SeqsUpTo(FolderPool, MaxFolders),
          changed_files \in SeqsUpTo(FilePool, MaxFiles) :
         script = [IdleScript EXCEPT !.pc = "detect",
                                     !.folders = folders,
                                     !.changed_files = changed_files,
                                     !.i = 1]

\* detect_folder_changes, one iteration of the loop over folders (lines
\* 54-62)
DetectFolder ==
    /\ script.pc = "detect"
    /\ script.i <= Len(script.folders)
    /\ script' = [script EXCEPT
                    !.changed_folders =
                        ScanFiles(script.changed_files, 1, script.folders[script.i], @),
                    !.i = @ + 1]
    /\ UNCHANGED <<mode, faults, oci, gcs, dataset, table, runsStarted, run>>

\* line 64 and main's line 163: the list is returned
DetectReturn ==
    /\ script.pc = "detect"
    /\ script.i > Len(script.folders)
    /\ script' = [script EXCEPT !.pc = "output"]
    /\ UNCHANGED <<mode, faults, oci, gcs, dataset, table, runsStarted, run>>

\* output_azure_devops_variable, lines 69-79: with no module the task is
\* marked failed and the script exits with 1; otherwise the variable is set
\* to the joined names and main returns
OutputAzureDevopsVariable ==
    /\ script.pc = "output"
    /\ script' = IF script.changed_folders = <<>>
                   THEN [script EXCEPT !.pc = "exited", !.exit_status = 1]
                 ELSE [script EXCEPT !.pc = "exited", !.exit_status = 0,
                                     !.changedModules = Join(",", script.changed_folders)]
    /\ UNCHANGED <<mode, faults, oci, gcs, dataset, table, runsStarted, run>>

NextDetect == DetectFolder \/ DetectReturn \/ OutputAzureDevopsVariable

\* one run of detect_changes.py from the call of detect_folder_changes on
SpecDetect == InitDetect /\ [][NextDetect]_vars

(******************************* the claims ********************************)
Done(r) == run[r].pc = "done"

\* C1: a run that staged no file never invokes the warehouse load nor the
\* archive move.
C1_NothingStagedSkipsLoadAndArchive ==
    \A r \in Runs :
        run[r].uploaded_count = 0 =>
            /\ run[r].pc \notin {"load_get", "load_create", "load_job",
                                 "archive_list", "archive_move", "archive_delete"}
            /\ run[r].load_jobs = 0
            /\ ~run[r].archive_called

\* C2: when load_gcs_to_bigquery raised, the run made no rename_blob call,
\* and what was under the staging prefix before the load is still there,
\* unchanged, when the run has ended.
C2_LoadFailureLeavesStaging ==
    \A r \in Runs :
        run[r].raised = "load" =>
            /\ ~run[r].archive_called
            /\ run[r].renamed = {}
            /\ \A n \in run[r].staging_before_load :
                   n \in DOMAIN gcs /\ HasPrefix(n, GCS_STAGING_FOLDER)
            /\ ListBlobs(GCS_ARCHIVE_FOLDER) = {}

\* C2's case: a run ended after its load raised with two files staged.
C2_Witness ==
    \E r \in Runs :
        /\ Done(r)
        /\ run[r].raised = "load"
        /\ run[r].load_jobs = 1
        /\ Cardinality(run[r].staged) = 2
        /\ run[r].staged \subseteq run[r].staging_before_load

\* C3: main's exit signal is a failure exactly when a stage of the pipeline
\* raised.
C3_ExitSignalTellsFailure ==
    \A r \in Runs :
        Done(r) => (run[r].exit = "exception" <=> run[r].raised # "none")

\* C4 as stated: when main has finished, neither temporary credential file
\* is on disk.
C4_CredentialFilesGone ==
    \A r \in Runs : Done(r) => ~run[r].key_file /\ ~run[r].config_file

\* C4 as amended: when main has finished, whatever stage raised, each
\* temporary credential file is gone unless os.remove raised OSError for it,
\* which cleanup logged as a warning.
C4_CredentialFilesGoneUnlessRemoveFailed ==
    \A r \in Runs :
        run[r].pc \in {"cleanup_dirs", "upload_log", "done"} =>
            /\ run[r].key_file <=> "key_file" \in run[r].not_removed
            /\ run[r].config_file <=> "config_file" \in run[r].not_removed

\* C4's case: the load raised after both files were written, and main
\* finished with both removed.
C4_Witness ==
    \E r \in Runs :
        /\ Done(r)
        /\ run[r].raised = "load"
        /\ run[r].load_jobs = 1
        /\ ~run[r].key_file /\ ~run[r].config_file
        /\ run[r].not_removed = {}

\* C5: a run for a date whose reports were already loaded and archived
\* stages nothing, issues no load job, raises nothing and adds no rows.
C5_RerunStagesAndLoadsNothing ==
    \A r \in Runs :
        run[r].already_archived =>
            /\ run[r].uploaded_count = 0
            /\ run[r].load_jobs = 0
            /\ run[r].raised = "none"
            /\ \A c \in Contents : table[c] <= 1

\* the ids of the first k listed objects created on day d, the day being
\* the half-open interval of timestamps from its midnight to the next
CreatedOn(d, k) ==
    { oci[i].id : i \in { j \in 1 .. k :
                            /\ d * TicksPerDay <= oci[j].time_created
                            /\ oci[j].time_created < (d + 1) * TicksPerDay } }

\* C6: the objects get_object was called for are exactly the listed objects
\* the loop has reached whose creation day is the target day (the loop ends
\* at the object whose download or upload raised).
C6_DownloadedIffCreatedOnTargetDate ==
    \A r \in Runs :
        run[r].idx >= 1 =>
            run[r].downloaded =
                CreatedOn(run[r].target_date,
                          IF run[r].raised \in {"download", "upload"} THEN run[r].idx
                          ELSE run[r].idx - 1)

\* C6's case: the loop went over an object of the target day's midnight, one
\* of the last tick of the day before and one of the next day's midnight,
\* and downloaded the first alone.
C6_Witness ==
    \E r \in Runs :
        /\ run[r].idx > Len(oci)
        /\ run[r].target_date = 1
        /\ { oci[i].time_created : i \in 1 .. Len(oci) } =
               {TicksPerDay - 1, TicksPerDay, 2 * TicksPerDay}
        /\ run[r].downloaded = {"a"}

\* A run without any failure over a listing of three compressed reports,
\* two created on the target day D and one on D-1.
SucceededOverThree(r) ==
    /\ Done(r)
    /\ run[r].target_date = 1
    /\ { oci[i].id : i \in 1 .. Len(oci) } = {"a", "b", "p"}
    /\ run[r].raised = "none"
    /\ run[r].decompress_failed = {} /\ run[r].upload_failed = {}

\* C7 as stated: such a run downloads, decompresses and stages 2 objects,
\* issues 1 load job and moves to the archive exactly the 2 names it staged.
C7_ArchivesExactlyWhatItStaged ==
    \A r \in Runs :
        SucceededOverThree(r) =>
            /\ run[r].downloaded_count = 2
            /\ Cardinality(run[r].decompressed) = 2
            /\ run[r].uploaded_count = 2 /\ Cardinality(run[r].staged) = 2
            /\ run[r].load_jobs = 1
            /\ run[r].renamed = run[r].staged

\* C7 as amended: such a run downloads, decompresses and stages 2 objects,
\* issues 1 load job and moves to the archive every file then listed under
\* the staging prefix: the 2 names it staged and whatever else sat there.
C7_ArchivesAllOfStaging ==
    \A r \in Runs :
        SucceededOverThree(r) =>
            /\ run[r].downloaded_count = 2
            /\ Cardinality(run[r].decompressed) = 2
            /\ run[r].uploaded_count = 2 /\ Cardinality(run[r].staged) = 2
            /\ run[r].load_jobs = 1
            /\ run[r].staged \subseteq run[r].renamed
            /\ run[r].renamed = run[r].files_to_move
            /\ run[r].moved_count = Cardinality(run[r].renamed)
            /\ \A n \in DOMAIN gcs :
                   n[1] = GCS_STAGING_FOLDER /\ Len(n) >= 2 => Last(n) = <<>>

\* C7's case: the run succeeded with a file of an earlier run under the
\* staging prefix, and moved three files.
C7_Witness ==
    \E r \in Runs :
        /\ SucceededOverThree(r)
        /\ run[r].archived
        /\ LeftOver \in run[r].renamed
        /\ Cardinality(run[r].renamed) = 3

\* C8: once archive_staged_files_in_gcs has returned, no moved blob is
\* under the staging prefix and each moved blob's content is that of a blob
\* under the archive prefix, one archive blob per moved blob.
C8_MovedBlobsKeptApart ==
    \A r \in Runs :
        run[r].archived =>
            /\ \A m \in run[r].moved :
                  /\ m[1] \notin DOMAIN gcs
                  /\ \E n \in ListBlobs(GCS_ARCHIVE_FOLDER) : gcs[n] = m[2]
            /\ Cardinality(ListBlobs(GCS_ARCHIVE_FOLDER)) >= Cardinality(run[r].moved)

\* C9: with two interleaved runs for different target dates, each staging
\* its own reports, every blob under the archive prefix holds rows a load
\* job has appended, and no report's rows were appended twice.
C9_InterleavedRunsLoadBeforeArchive ==
    (/\ run[1].target_date # run[2].target_date
     /\ run[1].uploaded_count >= 1
     /\ run[2].uploaded_count >= 1)
        => /\ \A n \in ListBlobs(GCS_ARCHIVE_FOLDER) : table[gcs[n]] >= 1
           /\ \A c \in Contents : table[c] <= 1

\* the compressed reports of the target day among the first k listed
SelectedGz(r, k) ==
    { i \in 1 .. k : /\ DateOf(oci[i].time_created) = run[r].target_date
                     /\ EndsWithGz(oci[i].name) }

\* C10: a failed decompression does not end the loop: the object is neither
\* uploaded nor counted, and every matching object the loop has passed that
\* did not fail itself is downloaded, decompressed and staged.
C10_DecompressFailureIsLocal ==
    \A r \in Runs :
        run[r].decompress_failed # {} =>
            /\ \/ run[r].pc = "fetch"
               \/ run[r].idx > Len(oci)
               \/ run[r].raised \in {"download", "upload"}
            /\ \A i \in SelectedGz(r, run[r].idx - 1) :
                  /\ oci[i].id \in run[r].downloaded
                  /\ IF oci[i].id \in run[r].decompress_failed
                       THEN /\ oci[i].id \notin run[r].decompressed
                            /\ ArchivedName(oci[i])[2] \notin
                                   { n[2] : n \in run[r].staged }
                     ELSE /\ oci[i].id \in run[r].decompressed
                          /\ oci[i].id \in run[r].upload_failed
                               \/ <<GCS_STAGING_FOLDER, RemoveGz(Basename(oci[i].name))>>
                                      \in run[r].staged
            /\ run[r].uploaded_count =
                   Cardinality({ i \in SelectedGz(r, run[r].idx - 1) :
                                   oci[i].id \notin run[r].decompress_failed
                                                    \cup run[r].upload_failed })

\* C10's case: the decompression of the first matching object failed and
\* the next matching object was staged.
C10_Witness ==
    \E r \in Runs :
        /\ run[r].idx > Len(oci)
        /\ run[r].decompress_failed = {"a"}
        /\ run[r].downloaded = {"a", "b"}
        /\ run[r].decompressed = {"b"}
        /\ run[r].uploaded_count = 1
        /\ run[r].staged = {<<GCS_STAGING_FOLDER, <<"b", ".csv">>>>}

\* the blob a compressed report is staged as
StagedName(obj) == <<GCS_STAGING_FOLDER, RemoveGz(Basename(obj.name))>>

Fatal == {"secret", "config", "list", "load"}
\* main's finally block and its end
CleanupPhase == {"cleanup_auth", "cleanup_dirs", "upload_log", "done"}
\* what the stages from the listing to the archive leave in a run's record
StageFields ==
    {"idx", "downloaded", "downloaded_count", "decompressed", "staged",
     "uploaded_count", "created_dataset", "load_jobs", "loaded",
     "archive_called", "files_to_move", "renamed", "moved_count"}

\* C12: the step in which credential setup, the listing or the load raises
\* takes the run to the start of cleanup with the exception recorded; from
\* then until main ends the run is in cleanup, no stage adds anything to its
\* record, and with one run the bucket, the dataset and the table stay as
\* they are. An exception before the loop leaves nothing downloaded, staged,
\* loaded or archived; one in the load leaves the archive uncalled.
C12_FatalExceptionGoesToCleanup ==
    [][\A r \in Runs :
          /\ (run[r].raised = "none" /\ run'[r].raised \in Fatal) =>
                /\ run'[r].pc = "cleanup_auth"
                /\ ~run'[r].archive_called /\ run'[r].renamed = {}
                /\ run'[r].raised # "load" =>
                      /\ run'[r].downloaded = {} /\ run'[r].staged = {}
                      /\ run'[r].load_jobs = 0
          /\ (run[r].raised \in Fatal /\ ~Done(r)) =>
                /\ run'[r].pc \in CleanupPhase
                /\ run'[r].raised = run[r].raised
                /\ \A f \in StageFields : run'[r][f] = run[r][f]
                /\ mode = "once" => gcs' = gcs /\ dataset' = dataset /\ table' = table
      ]_vars

\* C12's case: the listing raised with the target day's reports in the OCI
\* bucket, and main ended with nothing downloaded, loaded or archived.
C12_Witness ==
    \E r \in Runs :
        /\ Done(r)
        /\ run[r].raised = "list"
        /\ \E i \in 1 .. Len(oci) : Selected(oci[i], run[r].target_date)
        /\ run[r].downloaded = {}
        /\ run[r].load_jobs = 0
        /\ ~run[r].archive_called

\* C13: whatever fails in cleanup, main returns normally and the steps of
\* cleanup after the failure are executed: the log upload has returned True
\* or False by the end of main.
C13_CleanupFailureIsOnlyAWarning ==
    \A r \in Runs :
        Done(r) => /\ run[r].exit = "returned"
                   /\ run[r].log_upload \in {"ok", "failed"}

\* C14: when main has ended the final upload_to_gcs has been called; the
\* local log is gone only if it returned True, and is still there if the
\* upload failed.
C14_LogRemovedOnlyAfterUpload ==
    \A r \in Runs :
        Done(r) => /\ run[r].log_upload # "none"
                   /\ ~run[r].log_file => run[r].log_upload = "ok"
                   /\ run[r].log_upload \in {"failed", "raised"} => run[r].log_file

\* C14's case: the final upload returned False after a run without any
\* other failure, and the local log is still there.
C14_Witness ==
    \E r \in Runs :
        /\ Done(r)
        /\ run[r].raised = "none"
        /\ run[r].loaded
        /\ run[r].log_upload = "failed"
        /\ run[r].log_file
        /\ run[r].exit = "returned"

\* C15: a run issues its load job only when its loop over the listing has
\* ended without an exception, and from the first load_table_from_uri until
\* main ends it makes no call of upload_to_gcs to the staging prefix: it is
\* never back in the fetch phase and its staged blobs and counts stay.
C15_NoUploadAfterLoadIssued ==
    [][\A r \in Runs :
          /\ run'[r].load_jobs > run[r].load_jobs =>
                run[r].idx > Len(oci) /\ run[r].raised = "none"
          /\ (run'[r].load_jobs >= 1 /\ ~Done(r)) =>
                /\ run'[r].pc \notin {"connect", "fetch"}
                /\ run'[r].staged = run[r].staged
                /\ run'[r].uploaded_count = run[r].uploaded_count
                /\ run'[r].upload_failed = run[r].upload_failed
      ]_vars

\* C15's case: a run staged two files, issued its load job after them, and
\* ended.
C15_Witness ==
    \E r \in Runs :
        /\ Done(r)
        /\ run[r].load_jobs = 1
        /\ run[r].uploaded_count = 2
        /\ Cardinality(run[r].staged) = 2
        /\ run[r].staged \subseteq run[r].staging_before_load

\* C16: from the listing of archive_staged_files_in_gcs on, each listed
\* file is under exactly one of its staging name and its archive name, and
\* it is under the archive name exactly when its rename has returned.
C16_ListedFileInExactlyOnePlace ==
    \A r \in Runs :
        \A n \in run[r].files_to_move :
            /\ (n \in DOMAIN gcs) #
                   (DestinationBlobName(GCS_ARCHIVE_FOLDER, n) \in DOMAIN gcs)
            /\ n \in run[r].renamed <=> n \notin DOMAIN gcs

\* C17: over runs that follow each other, no step lowers the number of times
\* a report's rows are in the table, and the table changes only in the step
\* of a load job, which adds the rows of each file then under the staging
\* prefix to the rows the table had.
C17_LoadOnlyAppends ==
    [][/\ \A c \in Contents : table'[c] >= table[c]
       /\ table' # table =>
             /\ \E r \in Runs : run'[r].load_jobs = run[r].load_jobs + 1
             /\ \A c \in Contents :
                   table'[c] = table[c] +
                       Cardinality({ n \in DOMAIN gcs :
                                       HasPrefix(n, GCS_STAGING_FOLDER) /\ gcs[n] = c })
      ]_vars

\* C17's case: the second of two runs loaded another report, and the rows
\* the first run loaded are still in the table.
C17_Witness ==
    /\ runsStarted = 2
    /\ run[1].loaded
    /\ \E c, d \in Contents : c # d /\ table[c] = 1 /\ table[d] = 1

\* C18: load_table_from_uri is called only while the dataset exists; after
\* get_dataset the run creates the dataset exactly when it was missing, and
\* goes from the creation to the load job only with the dataset created.
C18_DatasetExistsBeforeLoadJob ==
    [][\A r \in Runs :
          /\ run'[r].load_jobs > run[r].load_jobs => dataset
          /\ (At(r, "load_get") /\ run'[r].pc = "load_create") => ~dataset
          /\ (At(r, "load_get") /\ run'[r].pc = "load_job") => dataset
          /\ (At(r, "load_create") /\ run'[r].pc = "load_job") =>
                ~dataset /\ dataset' /\ run'[r].created_dataset
          /\ (run'[r].pc = "load_job" /\ run[r].pc # "load_job") =>
                run[r].pc \in {"load_get", "load_create"}
          /\ run'[r].created_dataset # run[r].created_dataset =>
                At(r, "load_create") \/ run'[r].pc = "secret_config"
      ]_vars

\* C18's case: the dataset was missing, the run created it and then loaded.
C18_Witness ==
    \E r \in Runs :
        /\ run[r].created_dataset
        /\ dataset
        /\ run[r].load_jobs = 1
        /\ run[r].loaded

\* C19: with two interleaved runs and no failure but what one run causes
\* the other, every run that has reached cleanup after its fetch phase
\* returned has issued its load job,
\* also when the other run created the dataset between this run's
\* get_dataset and its create_dataset.
C19_CreateRaceStillLoads ==
    \A r \in Runs :
        (run[r].pc \in CleanupPhase /\ run[r].idx > Len(oci)) =>
            run[r].load_jobs >= 1

\* C20: with two interleaved runs, what a run stages does not depend on the
\* other: when its loop has ended it has uploaded every compressed report of
\* its target date, and unless its load raised it has issued its load job by
\* the time it archives, whether or not the other run staged or loaded the
\* same report.
C20_RunsStageAndLoadRegardless ==
    \A r \in Runs :
        run[r].idx > Len(oci) =>
            /\ run[r].staged =
                   { StagedName(oci[i]) : i \in SelectedGz(r, Len(oci)) }
            /\ run[r].uploaded_count = Cardinality(SelectedGz(r, Len(oci)))
            /\ (run[r].pc \in {"archive_list", "archive_move", "archive_delete"}
                                \cup CleanupPhase
                /\ run[r].raised # "load") => run[r].load_jobs = 1

\* C20's case: two interleaved runs for the same date both staged report a,
\* both loaded, and its rows are in the table twice.
C20_Witness ==
    /\ mode = "conc"
    /\ run[1].target_date = run[2].target_date
    /\ \A r \in Runs : /\ run[r].staged = {<<GCS_STAGING_FOLDER, <<"a", ".csv">>>>}
                       /\ run[r].loaded
    /\ table["a"] = 2

\* C21: when create_oci_config_dict_from_ini has returned a configuration
\* for the storage client, both temporary files exist and the key_file
\* entry of the DEFAULT profile loaded from the profile file is the absolute
\* path of the key file, whatever the INI payload was.
C21_ProfileKeyFileIsTheKeyFileWritten ==
    \A r \in Runs :
        At(r, "connect") =>
            /\ run[r].key_file /\ run[r].config_file
            /\ "key_file" \in DOMAIN run[r].oci_config_data
            /\ run[r].oci_config_data["key_file"] = AbsPath(TEMP_OCI_KEY_FILE)

\* C21's case: the payload had no [DEFAULT] section, only another profile
\* with a key_file entry of its own, and the configuration was returned.
C21_Witness ==
    \E r \in Runs :
        /\ At(r, "connect")
        /\ DOMAIN run[r].oci_ini_content = {"OTHER"}
        /\ run[r].oci_config_data["key_file"] = AbsPath(TEMP_OCI_KEY_FILE)

\* C22: while a run stages and until its load, the files under its download
\* directory are as many as it downloaded, the files under its
\* decompression directory as many as it decompressed, and the blobs under
\* the staging prefix, empty at the start, as many as its staged count.
C22_SelectedObjectsKeptApart ==
    \A r \in Runs :
        run[r].pc \in {"fetch", "load_get", "load_create", "load_job"} =>
            /\ Cardinality(run[r].gz_files) = run[r].downloaded_count
            /\ Cardinality(run[r].csv_files) = Cardinality(run[r].decompressed)
            /\ Cardinality(ListBlobs(GCS_STAGING_FOLDER)) = run[r].uploaded_count

\* filename minus its last token, the trailing suffix
StripSuffix(filename) == SubSeq(filename, 1, Len(filename) - 1)

\* C24: the files decompress_gz_file has written are, for each object it
\* decompressed, the file under the decompression directory named as the
\* object's base name without its trailing ".gz"; an object whose name does
\* not end in ".gz" is not decompressed and leaves no file there.
C24_OnlyTrailingGzRemoved ==
    \A r \in Runs :
        /\ run[r].csv_files =
               { <<LOCAL_CSV_DIR, StripSuffix(Basename(oci[i].name))>> :
                   i \in { j \in 1 .. Len(oci) : oci[j].id \in run[r].decompressed } }
        /\ \A i \in 1 .. Len(oci) :
               ~EndsWithGz(oci[i].name) => oci[i].id \notin run[r].decompressed

\* C23, the part both statements share: a run that began, whichever stage
\* raised, reaches the cleanup phase, and main finishes.
ReachesCleanup ==
    \A r \in Runs :
        /\ (run[r].pc # "idle") ~> (run[r].pc \in CleanupPhase)
        /\ (run[r].pc # "idle") ~> Done(r)

\* C23 as stated: every run reaches the cleanup phase, and when main has
\* finished neither the download directory nor the decompression directory
\* exists.
C23_CleanupReachedDirectoriesGone ==
    /\ ReachesCleanup
    /\ [](\A r \in Runs : Done(r) => ~run[r].download_dir /\ ~run[r].csv_dir)

\* C23 as amended: every run reaches the cleanup phase, and once
\* clean_up_local_directories has returned each of the two directories is
\* gone unless shutil.rmtree raised OSError for it, which was logged as a
\* warning.
C23_CleanupReachedDirectoriesGoneUnlessRmtreeFailed ==
    /\ ReachesCleanup
    /\ [](\A r \in Runs :
             run[r].pc \in {"upload_log", "done"} =>
                 /\ run[r].download_dir <=> "download_dir" \in run[r].not_removed
                 /\ run[r].csv_dir <=> "csv_dir" \in run[r].not_removed)

\* C23's case: the download of the second object raised after the first was
\* written to both directories, and main finished with both directories
\* removed.
C23_Witness ==
    \E r \in Runs :
        /\ Done(r)
        /\ run[r].raised = "download"
        /\ run[r].gz_files # {} /\ run[r].csv_files # {}
        /\ ~run[r].download_dir /\ ~run[r].csv_dir
        /\ run[r].not_removed = {}

\* C25: when archive_staged_files_in_gcs has returned, it has renamed every
\* blob that was listed under the staging prefix and whose name does not end
\* in '/', each to the archive prefix followed by its base name; it has
\* renamed no folder marker, which is still in place; and the count it
\* returned is the number of the listed blobs that are not markers, 0 with no
\* rename when there are none. While it runs it renames nothing else.
C25_ArchiveRenamesAllButMarkers ==
    \A r \in Runs :
        LET listed == run[r].staging_before_load
            files == { n \in listed : Last(n) # <<>> }
        IN /\ run[r].archive_called =>
                  /\ run[r].renamed \subseteq files
                  /\ run[r].moved_count = Cardinality(run[r].renamed)
                  /\ \A n \in listed \ files : n \in DOMAIN gcs
                  /\ \A n \in run[r].renamed :
                         /\ n \notin DOMAIN gcs
                         /\ <<GCS_ARCHIVE_FOLDER, Last(n)>> \in DOMAIN gcs
           /\ run[r].archived =>
                  /\ run[r].renamed = files
                  /\ run[r].moved_count = Cardinality(files)

\* C25's case: the listing held the folder marker, a file left by an earlier
\* run and two files of this run; the function returned 3 and the marker is
\* still under the staging prefix.
C25_Witness ==
    \E r \in Runs :
        /\ run[r].archived
        /\ FolderMarker \in run[r].staging_before_load
        /\ FolderMarker \in DOMAIN gcs
        /\ LeftOver \in run[r].renamed
        /\ run[r].moved_count = 3

\* C26: every matching object whose iteration of the loop ended, which was
\* downloaded and for which decompress_gz_file did not return None, was
\* uploaded to staging (or its upload was tried and returned False), an
\* object that is not compressed included.
C26_PassedThroughIsUploaded ==
    \A r \in Runs : \A k \in 1 .. Len(oci) :
        ( /\ run[r].pc # "idle"
          /\ k < run[r].idx
          /\ Selected(oci[k], run[r].target_date)
          /\ oci[k].id \in run[r].downloaded
          /\ oci[k].id \notin run[r].decompress_failed
          /\ oci[k].id \notin run[r].upload_failed )
            => StagedName(oci[k]) \in run[r].staged

\* C27: wherever the run can still call the source storage (building the
\* client and listing, or the loop that gets the objects), the temporary key
\* file and the temporary profile file are both on disk: they are there from
\* the return of create_oci_config_dict_from_ini on, and cleanup removes
\* them only later.
C27_CredentialFilesOutliveSourceCalls ==
    \A r \in Runs :
        run[r].pc \in {"connect", "fetch"} => run[r].key_file /\ run[r].config_file

\* C27's case: the loop has just made its last get_object call, two objects
\* were downloaded, and both files are still on disk.
C27_Witness ==
    \E r \in Runs :
        /\ run[r].pc = "load_get"
        /\ run[r].downloaded_count = 2
        /\ run[r].idx > Len(oci)
        /\ run[r].key_file /\ run[r].config_file

C29_DownloadFailureAbortsBeforeLoad ==
    \A r \in Runs :
        run[r].raised = "download" =>
            /\ run[r].pc \in CleanupPhase
            /\ run[r].load_jobs = 0 /\ ~run[r].loaded
            /\ ~run[r].archive_called /\ run[r].renamed = {}
            /\ \A n \in run[r].staged :
                   n \in DOMAIN gcs /\ HasPrefix(n, GCS_STAGING_FOLDER)
            /\ oci[run[r].idx].id \in run[r].downloaded
            /\ \A k \in run[r].idx .. Len(oci) :
                   StagedName(oci[k]) \notin run[r].staged
            /\ \A k \in (run[r].idx + 1) .. Len(oci) :
                   oci[k].id \notin run[r].downloaded

\* C29's case: of three matching objects the first was staged, the download
\* of the second raised, the third was never asked for, and main finished
\* with the staged file still in place.
C29_Witness ==
    \E r \in Runs :
        /\ Done(r)
        /\ run[r].raised = "download"
        /\ Len(oci) = 3 /\ run[r].idx = 2
        /\ \A k \in 1 .. 3 : Selected(oci[k], run[r].target_date)
        /\ run[r].staged = {StagedName(oci[1])}
        /\ StagedName(oci[1]) \in DOMAIN gcs
        /\ oci[3].id \notin run[r].downloaded

\* C30: when main of the download-only variant has ended, on whatever path,
\* the temporary key file and the temporary profile file are gone (a file
\* whose os.remove raised aside).
C30_DownloadOnlyCredentialFilesGone ==
    \A r \in Runs :
        (Done(r) /\ run[r].not_removed = {}) =>
            ~run[r].key_file /\ ~run[r].config_file

\* C31: in the download-only variant, a report the loop is about to skip
\* because its CSV path exists is one that an earlier run downloaded and
\* decompressed in full.
C31_SkippedOnlyIfFullyDecompressed ==
    \A r \in Runs :
        (run[r].pc = "fetch" /\ run[r].idx <= Len(oci)) =>
            LET report == SortedReports(oci)[run[r].idx]
            IN FileExists(run[r], LocalFilePathCsv(report))
                   => report.id \in run[r].decompressed

\* the folder configurations at positions 1 .. n of which a changed file
\* starts with the path without its '*'
Matching(n) ==
    { j \in 1 .. n :
        LET p == SelectSeq(script.folders[j].path, LAMBDA t : t # "*")
        IN \E k \in 1 .. Len(script.changed_files) :
              /\ Len(p) <= Len(script.changed_files[k])
              /\ SubSeq(script.changed_files[k], 1, Len(p)) = p }

\* the first matching configuration that has the name
FirstMatching(n, name) ==
    CHOOSE j \in Matching(n) :
        /\ script.folders[j].name = name
        /\ \A h \in Matching(n) : script.folders[h].name = name => j <= h

\* C32: after each folder configuration the loop has gone through, and so
\* when detect_folder_changes returns, the list holds exactly the names of
\* the configurations gone through for which a changed file starts with the
\* path without its '*', each name once, in the order of their first such
\* configuration; and when the script has ended with an empty list, it
\* exited with status 1 and changedModules is not set, otherwise the
\* variable is the names joined by commas.
C32_ChangedFoldersAreTheMatchingNames ==
    LET done == IF script.pc = "idle" THEN 0 ELSE script.i - 1
        result == script.changed_folders
    IN /\ { result[k] : k \in 1 .. Len(result) }
              = { script.folders[j].name : j \in Matching(done) }
       /\ \A k, h \in 1 .. Len(result) :
              k < h => /\ result[k] # result[h]
                       /\ FirstMatching(done, result[k]) < FirstMatching(done, result[h])
       /\ script.pc \in {"output", "exited"} => done = Len(script.folders)
       /\ script.pc = "exited" =>
              IF result = <<>>
                THEN script.exit_status = 1 /\ script.changedModules = <<>>
              ELSE /\ script.exit_status = 0
                   /\ Len(script.changedModules) = 2 * Len(result) - 1
                   /\ \A k \in 1 .. Len(result) :
                          script.changedModules[2 * k - 1] = result[k]

\* C32's case: three configurations, the first and the third with one name
\* and both with a changed file, the second with another name and a changed
\* file too: two names were returned, the repeated one first.
C32_Witness ==
    /\ script.pc = "exited"
    /\ Len(script.folders) = 3
    /\ script.folders[1].name = script.folders[3].name
    /\ script.folders[1].path # script.folders[3].path
    /\ Matching(3) = {1, 2, 3}
    /\ script.changed_folders = <<script.folders[1].name, script.folders[2].name>>
    /\ script.folders[1].name # script.folders[2].name
    /\ script.exit_status = 0

====
